---------------------------- MODULE Spec2Model ----------------------------
(***************************************************************************)
(* License-plate detection pipeline of menlo-oaks: the webhook handler     *)
(* (main.py), the warehouse row builder (bigquery_client.py), the polled   *)
(* event decoder (unifi_protect_client.py) and the backfill driver         *)
(* (backfill_detections.py).                                               *)
(*                                                                         *)
(* Conventions.  A Python str that is plate text is a sequence of          *)
(* one-character strings, so upper() and strip() are computed.  A Python   *)
(* dict is a record; a key that .get() would default is carried with the   *)
(* default's value.  None returned by an extractor is the empty list (the  *)
(* extractors never return a dict with an empty list).  A float confidence *)
(* is an integer number of hundredths.                                     *)
(***************************************************************************)
EXTENDS Integers, Sequences, FiniteSets, TLC

\* ---------------------------------------------------------------- bounds
MaxLen == 2          \* longest plate text drawn as input
MaxTriggers == 2     \* longest alarm.triggers list drawn as input
MaxThumbs == 2       \* longest detected_thumbnails list drawn as input

\* ------------------------------------------------------------ plate text
Chars == {"a", " "}

RECURSIVE StrUpTo(_)
StrUpTo(n) ==
  IF n = 0 THEN {<<>>}
  ELSE LET S == StrUpTo(n - 1) IN
       S \cup {Append(s, c) : s \in {x \in S : Len(x) = n - 1}, c \in Chars}

Str == StrUpTo(MaxLen)

\* str.upper(), one character
UpperChar(c) == IF c = "a" THEN "A" ELSE c

\* str.upper()
Upper(s) == [i \in DOMAIN s |-> UpperChar(s[i])]

IsSpace(c) == c = " "

\* str.lstrip() / str.rstrip() / str.strip()
RECURSIVE LStrip(_)
LStrip(s) == IF s # <<>> /\ IsSpace(Head(s)) THEN LStrip(Tail(s)) ELSE s

RECURSIVE RStrip(_)
RStrip(s) ==
  IF s # <<>> /\ IsSpace(s[Len(s)]) THEN RStrip(SubSeq(s, 1, Len(s) - 1)) ELSE s

Strip(s) == RStrip(LStrip(s))

\* truth value of a Python str: any non-empty string, blanks included
Truthy(s) == s # <<>>

\* ------------------------------------------------------------ timestamps
(***************************************************************************)
(* A timestamp value as it travels through the dicts.  k is the Python     *)
(* shape: "none" (None), "empty" (""), "iso" (a str that                   *)
(* datetime.fromisoformat accepts), "bad" (a str it rejects), "num" (an    *)
(* int or float), "dt" (a datetime object), "fmt" (the warehouse's         *)
(* 'YYYY-MM-DD HH:MM:SS' text).  The instant is q*1000 + r seconds for     *)
(* every shape but "num", whose number is q*1000 + r.                      *)
(***************************************************************************)
Ts(k, q, r) == [k |-> k, q |-> q, r |-> r]

NoneTs == Ts("none", 0, 0)
EmptyTs == Ts("empty", 0, 0)
BadTs == Ts("bad", 0, 0)

\* datetime.fromisoformat(s.replace('Z', '+00:00')) succeeds
IsoParses(v) == v.k = "iso"

\* truth value of a timestamp value (None, "" and 0 are false)
TsTruthy(v) ==
  /\ v.k \notin {"none", "empty"}
  /\ ~(v.k = "num" /\ v.q = 0 /\ v.r = 0)


\* the numeric scale test "timestamp_value > 9999999999", on q*1000 + r
MsThresholdQ == 9999999
MsThresholdR == 999

\* the scale test written with >= in place of >
IsMillisInclusive(v) ==
  v.q > MsThresholdQ \/ (v.q = MsThresholdQ /\ v.r >= MsThresholdR)

IsMillis(v) == v.q > MsThresholdQ \/ (v.q = MsThresholdQ /\ v.r > MsThresholdR)

\* _parse_timestamp without its branch for datetime objects
ParseTimestampStringsOnly(v) ==
  IF ~TsTruthy(v) THEN NoneTs
  ELSE IF v.k = "num" THEN
         IF IsMillis(v) THEN Ts("fmt", v.q \div 1000, v.q % 1000)
         ELSE Ts("fmt", v.q, v.r)
  ELSE IF v.k \in {"iso", "bad"} THEN
         IF IsoParses(v) THEN Ts("fmt", v.q, v.r) ELSE NoneTs
  ELSE NoneTs

\* BigQueryClient._parse_timestamp: the DATETIME text, or None
ParseTimestamp(v) ==
  IF ~TsTruthy(v) THEN NoneTs
  ELSE IF v.k = "dt" THEN Ts("fmt", v.q, v.r)
  ELSE IF v.k = "num" THEN
         IF IsMillis(v) THEN Ts("fmt", v.q \div 1000, v.q % 1000)
         ELSE Ts("fmt", v.q, v.r)
  ELSE IF v.k \in {"iso", "bad"} THEN
         IF IsoParses(v) THEN Ts("fmt", v.q, v.r) ELSE NoneTs
  ELSE NoneTs

\* datetime.utcnow() / datetime.utcnow().isoformat() at clock reading t
UtcNow(t) == Ts("dt", 0, t)
IsoFormat(v) == Ts("iso", v.q, v.r)

\* --------------------------------------------------------------- payload
Keys == {"license_plate_unknown", "vehicle", "motion"}

\* the test  "license_plate" in key
ContainsLicensePlate(key) == key \in {"license_plate", "license_plate_unknown",
                                      "license_plate_known",
                                      "license_plate_of_interest"}

NoConfidence == -1   \* the value None in a confidence slot
DefaultConfidence == 95

\* a vehicle attribute (vehicle_type, color) as a thumbnail carries it:
\* missing, or a label with or without a confidence (in hundredths)
NoAttribute == [present |-> FALSE, val |-> "", hasConfidence |-> FALSE,
                confidence |-> 0]
Attribute(val, conf) == [present |-> TRUE, val |-> val, hasConfidence |-> TRUE,
                         confidence |-> conf]
BareAttribute(val) == [present |-> TRUE, val |-> val, hasConfidence |-> FALSE,
                       confidence |-> 0]
NoAttributes == [vehicle_type |-> NoAttribute, color |-> NoAttribute]

\* the plate_info["vehicle_type"] / ["vehicle_color"] entry built from a
\* thumbnail attribute: the key is set only for a truthy attribute, and a
\* missing confidence reads as 0
NoVehicleAttribute == [present |-> FALSE, label |-> "", confidence |-> NoConfidence]
VehicleAttribute(a) ==
  IF a.present
  THEN [present |-> TRUE, label |-> a.val,
        confidence |-> IF a.hasConfidence THEN a.confidence ELSE 0]
  ELSE NoVehicleAttribute

\* a plate_info dict; src is the list position the text was read from
PlateInfo(num, ts, dev, ev, dtype, crop, conf, src) ==
  [plate_number |-> num, timestamp |-> ts, device_id |-> dev, event_id |-> ev,
   detection_type |-> dtype, cropped_id |-> crop, confidence |-> conf,
   vehicle_type |-> NoVehicleAttribute, vehicle_color |-> NoVehicleAttribute,
   src |-> src]

RECURSIVE Flatten(_)
Flatten(ss) == IF ss = <<>> THEN <<>> ELSE Head(ss) \o Flatten(Tail(ss))

\* the same search ending in a placeholder for the vehicle when no sibling
\* trigger carries a plate
ExtractEmbeddedPlaceholder(webhook_data, trigger) ==
  LET triggers == webhook_data.triggers
      one(j) ==
        LET other == triggers[j] IN
        IF other # trigger /\ ContainsLicensePlate(other.key) /\ Truthy(other.value)
        THEN << PlateInfo(Strip(Upper(other.value)), other.timestamp,
                          other.device, other.eventId, other.key, "",
                          DefaultConfidence, j) >>
        ELSE <<>>
      found == Flatten([j \in 1..Len(triggers) |-> one(j)])
  IN IF found = <<>>
     THEN << PlateInfo(<<>>, trigger.timestamp, trigger.device, trigger.eventId,
                       trigger.key, "", DefaultConfidence, 0) >>
     ELSE found

\* main._extract_embedded_plate_data_from_webhook
ExtractEmbedded(webhook_data, trigger) ==
  LET triggers == webhook_data.triggers
      one(j) ==
        LET other == triggers[j] IN
        IF other # trigger /\ ContainsLicensePlate(other.key) /\ Truthy(other.value)
        THEN << PlateInfo(Strip(Upper(other.value)), other.timestamp,
                          other.device, other.eventId, other.key, "",
                          DefaultConfidence, j) >>
        ELSE <<>>
  IN Flatten([j \in 1..Len(triggers) |-> one(j)])

\* main._extract_plate_data_from_alarm, the body of the loop for triggers[i]
AlarmTriggerPlates(webhook_data, i) ==
  LET trigger == webhook_data.triggers[i]
      key == trigger.key
  IN IF key # "" /\ (ContainsLicensePlate(key) \/ key = "vehicle")
     THEN IF Truthy(trigger.value)
          THEN << PlateInfo(Strip(Upper(trigger.value)), trigger.timestamp,
                            trigger.device, trigger.eventId, key, "",
                            DefaultConfidence, i) >>
          ELSE IF trigger.eventId # "" /\ key = "vehicle"
          THEN ExtractEmbedded(webhook_data, trigger)
          ELSE <<>>
     ELSE <<>>

\* main._extract_plate_data_from_alarm
ExtractFromAlarm(webhook_data) ==
  IF webhook_data.triggers = <<>> THEN <<>>
  ELSE Flatten([i \in 1..Len(webhook_data.triggers) |->
                  AlarmTriggerPlates(webhook_data, i)])

\* main._extract_plate_data_from_smart_detection
ExtractFromSmartDetection(webhook_data) ==
  LET thumbs == webhook_data.detected_thumbnails
      one(i) ==
        LET thumbnail == thumbs[i] IN
        IF thumbnail.type = "vehicle" /\ Truthy(thumbnail.name)
        THEN << [PlateInfo(Strip(Upper(thumbnail.name)),
                           thumbnail.clock_best_wall, "", "", "",
                           thumbnail.cropped_id, NoConfidence, i)
                   EXCEPT !.vehicle_type =
                            VehicleAttribute(thumbnail.attributes.vehicle_type),
                          !.vehicle_color =
                            VehicleAttribute(thumbnail.attributes.color)] >>
        ELSE <<>>
  IN Flatten([i \in 1..Len(thumbs) |-> one(i)])

\* main.extract_plate_data: which extractor the payload is handed to
Dispatch(webhook_data) ==
  IF webhook_data.hasTriggers THEN "alarm"
  ELSE IF webhook_data.type = "smart_detection" THEN "smart_detection"
  ELSE "none"

\* main.extract_plate_data
ExtractPlateData(webhook_data) ==
  CASE Dispatch(webhook_data) = "alarm" -> ExtractFromAlarm(webhook_data)
    [] Dispatch(webhook_data) = "smart_detection" ->
         ExtractFromSmartDetection(webhook_data)
    [] OTHER -> <<>>

\* ------------------------------------------------------------ enrichment
\* json.dumps(webhook_data) / str(event) / str({}): the text and what it holds
JsonDumps(webhook_data) == [fmt |-> "json", of |-> {webhook_data}]
StrOf(event) == [fmt |-> "repr", of |-> {event}]
StrOfEmptyDict == [fmt |-> "repr", of |-> {}]

\* a stored image as the record's thumbnail fields carry it; NoArtifact is
\* the state of a slot whose keys were never set
NoFilename == [plate |-> <<>>, ts |-> NoneTs, hash |-> <<>>, image_type |-> "",
               uuid |-> 0]
NoArtifact == [path |-> NoFilename, oversize |-> FALSE]

\* main.enrich_individual_plate_data at clock reading t
EnrichIndividualPlateData(plate_info, webhook_data, t) ==
  [plate_number |-> plate_info.plate_number,
   confidence |-> IF "confidence" \in DOMAIN plate_info
                  THEN plate_info.confidence ELSE DefaultConfidence,
   cropped_id |-> plate_info.cropped_id,
   plate_detection_timestamp |-> plate_info.timestamp,
   vehicle_type_confidence |-> IF plate_info.vehicle_type.present
                               THEN plate_info.vehicle_type.confidence
                               ELSE NoConfidence,
   vehicle_color_confidence |-> IF plate_info.vehicle_color.present
                                THEN plate_info.vehicle_color.confidence
                                ELSE NoConfidence,
   device_id |-> plate_info.device_id,
   detection_type |-> plate_info.detection_type,
   detection_timestamp |-> IsoFormat(UtcNow(t)),
   camera_id |-> IF webhook_data.cameraId = "" /\ plate_info.device_id # ""
                 THEN plate_info.device_id ELSE webhook_data.cameraId,
   event_id |-> IF webhook_data.eventId = "" /\ plate_info.event_id # ""
                THEN plate_info.event_id ELSE webhook_data.eventId,
   event_timestamp |-> webhook_data.eventStart,
   snapshot_url |-> webhook_data.snapshotUrl,
   processing_timestamp |-> IsoFormat(UtcNow(t)),
   processed_by |-> "unifi-protect-cloud-function",
   raw_detection_data |-> JsonDumps(webhook_data),
   thumbnail |-> NoArtifact,
   cropped_thumbnail |-> NoArtifact]

\* ----------------------------------------------------------- sink writer
\* float(x): raises TypeError on None
FloatRaises(x) == x = NoConfidence

\* float(x) of a number, in hundredths
Float(x) == x

\* BigQueryClient._prepare_row_data: the exception it raises, if any
PrepareRowRaises(plate_data) == FloatRaises(plate_data.confidence)

\* BigQueryClient._prepare_row_data: the row
PrepareRowData(plate_data, record_id) ==
  [record_id |-> record_id,
   plate_number |-> Upper(plate_data.plate_number),
   confidence |-> Float(plate_data.confidence),
   cropped_id |-> plate_data.cropped_id,
   vehicle_type_confidence |->
     IF plate_data.vehicle_type_confidence # NoConfidence
     THEN Float(plate_data.vehicle_type_confidence) ELSE NoConfidence,
   vehicle_color_confidence |->
     IF plate_data.vehicle_color_confidence # NoConfidence
     THEN Float(plate_data.vehicle_color_confidence) ELSE NoConfidence,
   detection_timestamp |-> ParseTimestamp(plate_data.detection_timestamp),
   plate_detection_timestamp |->
     ParseTimestamp(plate_data.plate_detection_timestamp),
   processing_timestamp |-> ParseTimestamp(plate_data.processing_timestamp),
   event_timestamp |-> ParseTimestamp(plate_data.event_timestamp),
   device_id |-> plate_data.device_id,
   camera_id |-> plate_data.camera_id,
   event_id |-> plate_data.event_id,
   snapshot_url |-> plate_data.snapshot_url,
   thumbnail |-> plate_data.thumbnail,
   cropped_thumbnail |-> plate_data.cropped_thumbnail,
   processed_by |-> plate_data.processed_by,
   raw_detection_data |-> IF "raw_detection" \in DOMAIN plate_data
                          THEN StrOf(plate_data.raw_detection)
                          ELSE StrOfEmptyDict]

\* ---------------------------------------------------- thumbnail pipeline
\* what one download-and-store attempt can come to
Outcomes == {"ok", "download_error", "oversize", "upload_error"}
InlineOutcomes == {"ok", "decode_error", "upload_error"}
FallbackTypes == {"event_snapshot", "live_snapshot", "license_plate_crop"}

IsAlnum(c) == c \in {"a", "A"}

\* GCSClient._generate_filename: date path and time (ts), cleaned plate, the
\* md5 of the four arguments (hash, taken as injective) and the image type;
\* uuid is the uuid4 drawn if the fallback name is built
GenerateFilename(plate_number, detection_timestamp, event_id, image_type, uuid) ==
  IF IsoParses(detection_timestamp)
  THEN [plate |-> Upper(SelectSeq(plate_number, IsAlnum)),
        ts |-> detection_timestamp,
        hash |-> << plate_number, detection_timestamp, event_id, image_type >>,
        image_type |-> image_type, uuid |-> 0]
  ELSE [plate |-> <<>>, ts |-> NoneTs, hash |-> <<>>,
        image_type |-> image_type, uuid |-> uuid]

\* GCSClient.download_and_upload_from_url returns success
UrlStoreSucceeds(outcome) == outcome = "ok"

\* UniFiProtectClient.download_thumbnail returns bytes and
\* GCSClient.upload_thumbnail returns success
NvrStoreSucceeds(outcome) == outcome \in {"ok", "oversize"}

\* the thumbnail_results dict: the two slots and the blob writes made so far
\* session tells what the call did to the NVR client: "unused", "refused"
\* (connect() returned False) or "closed" (connect() then disconnect())
NoResults == [thumbnail |-> NoArtifact, cropped_thumbnail |-> NoArtifact,
              writes |-> <<>>, session |-> "unused"]

ResultsEmpty(res) ==
  res.thumbnail = NoArtifact /\ res.cropped_thumbnail = NoArtifact

StoreFull(res, fn, over) ==
  [res EXCEPT !.thumbnail = [path |-> fn, oversize |-> over],
              !.writes = Append(@, fn)]

StoreCrop(res, fn, over) ==
  [res EXCEPT !.cropped_thumbnail = [path |-> fn, oversize |-> over],
              !.writes = Append(@, fn)]

\* UniFiProtectClient._extract_cropped_thumbnails: the image types of the
\* entries that carry a url (alarm triggers yield entries whose url is None)
ExtractCroppedThumbnails(webhook_data) ==
  LET thumbs == webhook_data.detected_thumbnails
      one(i) == IF thumbs[i].type = "vehicle" /\ Truthy(thumbs[i].name)
                   /\ thumbs[i].cropped_id # ""
                THEN << "license_plate_crop" >> ELSE <<>>
  IN Flatten([i \in 1..Len(thumbs) |-> one(i)])

\* UniFiProtectClient.extract_thumbnails_from_detection, client authenticated
ExtractThumbnailsFromDetection(webhook_data) ==
  IF webhook_data.cameraId = "" THEN <<>>
  ELSE (IF webhook_data.eventId # "" THEN << "event_snapshot" >> ELSE <<>>)
       \o << "live_snapshot" >>
       \o ExtractCroppedThumbnails(webhook_data)

\* the loop over thumbnails in extract_thumbnails_async
RECURSIVE FallbackLoop(_, _, _, _)
FallbackLoop(res, types, fname, fb) ==
  IF types = <<>> THEN res
  ELSE LET ty == Head(types)
           next == IF NvrStoreSucceeds(fb[ty])
                   THEN IF ty = "license_plate_crop"
                        THEN StoreCrop(res, fname[ty], fb[ty] = "oversize")
                        ELSE StoreFull(res, fname[ty], fb[ty] = "oversize")
                   ELSE res
       IN FallbackLoop(next, Tail(types), fname, fb)

\* main.process_thumbnails_for_plate, step 1: the alarm's inline thumbnail
InlineStep(res, webhook_data, fn, o) ==
  IF webhook_data.hasAlarm /\ webhook_data.thumbnail = "data_url" /\ o.inline = "ok"
  THEN StoreFull(res, fn, FALSE) ELSE res

\* step 2: the event snapshot url
SnapshotStep(res, plate_data, cfg, fn, o) ==
  IF cfg.STORE_EVENT_SNAPSHOTS /\ plate_data.snapshot_url # ""
     /\ UrlStoreSucceeds(o.snapshot)
  THEN StoreFull(res, fn, FALSE) ELSE res

\* step 3 letting a failed store escape to the outer handler, which returns
\* None for the whole call
CropStepAborting(res, plate_data, cfg, fn, o) ==
  IF cfg.STORE_CROPPED_THUMBNAILS /\ plate_data.cropped_id # ""
     /\ plate_data.camera_id # ""
  THEN IF UrlStoreSucceeds(o.crop) THEN StoreCrop(res, fn, FALSE) ELSE NoResults
  ELSE res

\* step 3: the cropped plate thumbnail
CropStep(res, plate_data, cfg, fn, o) ==
  IF cfg.STORE_CROPPED_THUMBNAILS /\ plate_data.cropped_id # ""
     /\ plate_data.camera_id # "" /\ UrlStoreSucceeds(o.crop)
  THEN StoreCrop(res, fn, FALSE) ELSE res

\* step 4 runs: nothing stored yet and the NVR connection is configured
FallbackRuns(res, cfg) == ResultsEmpty(res) /\ cfg.unifiConfigured

\* extract_thumbnails_async returning after a successful connect without
\* the disconnect
FallbackSessionLeftOpen(connected) ==
  IF connected THEN "open" ELSE "refused"

\* extract_thumbnails_async, the NVR session of the call: opened by a
\* successful connect and closed by the disconnect after the loop, whose
\* downloads and uploads return their failures and never raise
FallbackSession(connected) ==
  IF connected THEN "closed" ELSE "refused"

\* main.process_thumbnails_for_plate: the results dict (NoResults slots when
\* it returns None).  o is what the network and the blob store do in this
\* call, uuid the next unused uuid4.
ProcessThumbnailsForPlate(plate_data, webhook_data, cfg, o, uuid) ==
  LET fname == [ty \in {"alarm_thumbnail"} \cup FallbackTypes |->
                  GenerateFilename(plate_data.plate_number,
                                   plate_data.detection_timestamp,
                                   plate_data.event_id, ty, uuid)]
      r1 == InlineStep(NoResults, webhook_data, fname["alarm_thumbnail"], o)
      r2 == SnapshotStep(r1, plate_data, cfg, fname["event_snapshot"], o)
      r3 == CropStep(r2, plate_data, cfg, fname["license_plate_crop"], o)
  IN IF FallbackRuns(r3, cfg)
     THEN IF o.connect
          THEN [FallbackLoop(r3, ExtractThumbnailsFromDetection(webhook_data),
                             fname, o.fb)
                  EXCEPT !.session = FallbackSession(o.connect)]
          ELSE [r3 EXCEPT !.session = FallbackSession(o.connect)]
     ELSE r3

\* the run in which network, bucket and warehouse all answer
QuietEnv == [inline |-> "ok", snapshot |-> "ok", crop |-> "ok", connect |-> TRUE,
             fb |-> [ty \in FallbackTypes |-> "ok"]]

InSeq(x, seq) == \E i \in 1..Len(seq) : seq[i] = x

\* the outcome of every source the call does not reach is left at "ok", so
\* that one run of the code is one value of o
WebhookEnvFits(o, plate_data, webhook_data, cfg) ==
  LET r3 == CropStep(SnapshotStep(InlineStep(NoResults, webhook_data,
                      NoFilename, o), plate_data, cfg, NoFilename, o),
                     plate_data, cfg, NoFilename, o)
      fallback == cfg.STORE_IMAGES /\ FallbackRuns(r3, cfg)
      types == ExtractThumbnailsFromDetection(webhook_data)
  IN /\ ~(cfg.STORE_IMAGES /\ webhook_data.hasAlarm
            /\ webhook_data.thumbnail = "data_url") => o.inline = "ok"
     /\ ~(cfg.STORE_IMAGES /\ cfg.STORE_EVENT_SNAPSHOTS
            /\ plate_data.snapshot_url # "") => o.snapshot = "ok"
     /\ ~(cfg.STORE_IMAGES /\ cfg.STORE_CROPPED_THUMBNAILS
            /\ plate_data.cropped_id # "" /\ plate_data.camera_id # "")
          => o.crop = "ok"
     /\ ~fallback => o.connect
     /\ \A ty \in FallbackTypes :
          ~(fallback /\ o.connect /\ InSeq(ty, types)) => o.fb[ty] = "ok"

BackfillEnvFits(o, plate_data, cfg) ==
  LET on == cfg.store_thumbnails
      snap == on /\ cfg.STORE_EVENT_SNAPSHOTS /\ plate_data.snapshot_url # ""
      crop == on /\ cfg.STORE_CROPPED_THUMBNAILS /\ plate_data.cropped_id # ""
              /\ plate_data.camera_id # ""
      fallback == on /\ ~(snap /\ NvrStoreSucceeds(o.snapshot))
                     /\ ~(crop /\ NvrStoreSucceeds(o.crop))
  IN /\ o.inline = "ok" /\ o.connect
     /\ ~snap => o.snapshot = "ok"
     /\ ~crop => o.crop = "ok"
     /\ o.fb["license_plate_crop"] = "ok"
     /\ ~(fallback /\ plate_data.camera_id # "") => o.fb["live_snapshot"] = "ok"
     /\ ~(fallback /\ plate_data.camera_id # "" /\ plate_data.event_id # "")
          => o.fb["event_snapshot"] = "ok"

\* the values of o one call of process_thumbnails_for_plate can meet
WebhookEnvs(plate_data, webhook_data, cfg) ==
  LET on == cfg.STORE_IMAGES
      inlines == IF on /\ webhook_data.hasAlarm /\ webhook_data.thumbnail = "data_url"
                 THEN InlineOutcomes ELSE {"ok"}
      snapshots == IF on /\ cfg.STORE_EVENT_SNAPSHOTS /\ plate_data.snapshot_url # ""
                   THEN Outcomes ELSE {"ok"}
      crops == IF on /\ cfg.STORE_CROPPED_THUMBNAILS /\ plate_data.cropped_id # ""
                  /\ plate_data.camera_id # ""
               THEN Outcomes ELSE {"ok"}
      connects == IF on /\ cfg.unifiConfigured THEN BOOLEAN ELSE {TRUE}
      fbs == IF on /\ cfg.unifiConfigured
             THEN [FallbackTypes -> Outcomes] ELSE {QuietEnv.fb}
  IN { o \in [inline : inlines, snapshot : snapshots, crop : crops,
              connect : connects, fb : fbs] :
         WebhookEnvFits(o, plate_data, webhook_data, cfg) }

\* the values of o one call of _process_thumbnails_for_plate can meet
BackfillEnvs(plate_data, cfg) ==
  LET on == cfg.store_thumbnails
      snapshots == IF on /\ cfg.STORE_EVENT_SNAPSHOTS /\ plate_data.snapshot_url # ""
                   THEN Outcomes ELSE {"ok"}
      crops == IF on /\ cfg.STORE_CROPPED_THUMBNAILS /\ plate_data.cropped_id # ""
                  /\ plate_data.camera_id # ""
               THEN Outcomes ELSE {"ok"}
      fbs == IF on THEN [FallbackTypes -> Outcomes] ELSE {QuietEnv.fb}
  IN { o \in [inline : {"ok"}, snapshot : snapshots, crop : crops,
              connect : {TRUE}, fb : fbs] :
         BackfillEnvFits(o, plate_data, cfg) }

\* ----------------------------------------------------------------- state
VARIABLES
  config,            \* the Config flags the pipeline reads
  request,           \* the webhook payload (webhook_data) being delivered
  nvr,               \* the events the NVR holds, as uiprotect returns them
  pc,                \* where the running operation stands
  plates,            \* plate_data["license_plates"] of the webhook in progress
  decoder,           \* the extractor extract_plate_data handed the payload to
  idx,               \* position of the webhook's loop over plates
  handed,            \* every record passed to insert_license_plate_record
  rows,              \* the warehouse table
  uploads,           \* every blob written to the bucket, in order
  response,          \* the webhook's HTTP answer
  clock,             \* the wall clock
  nextId,            \* source of uuid4 values
  authenticated,     \* UniFiProtectClient._authenticated
  processed_events,  \* DetectionBackfiller.processed_events
  events,            \* the events run_backfill loops over
  bidx,              \* position of run_backfill's loop over events
  pidx,              \* position of _process_event's loop over plates
  run,               \* days, dry_run, errors, records_inserted of the run
  summary,           \* what run_backfill returned
  attempt,           \* what network, bucket and warehouse did in the last turn
  calls,             \* direct calls of the helper functions: arguments, result
  invocation         \* the webhook invocations running side by side

vars == << config, request, nvr, pc, plates, decoder, idx, handed, rows,
           uploads, response, clock, nextId, authenticated, processed_events,
           events, bidx, pidx, run, summary, attempt, calls, invocation >>

webhookVars == << plates, decoder, idx, response >>
backfillVars == << processed_events, events, bidx, pidx, run, summary >>
helperVars == << calls, invocation >>

NoResponse == [status |-> 0, plate_number |-> <<>>, error |-> ""]
NoRun == [days |-> 0, dry_run |-> FALSE, errors |-> <<>>, records_inserted |-> 0,
          event_inserted |-> 0, requests |-> <<>>, seq |-> 0]
NoSummary == [returned |-> FALSE, success |-> FALSE, events_found |-> 0,
              records_inserted |-> 0, errors |-> <<>>]

\* the state after the module-level clients are constructed, for one
\* deployment configuration, one payload on its way and one NVR content
InitWith(cfgs, scenarios) ==
  /\ config \in cfgs
  /\ \E sc \in scenarios : request = sc.request /\ nvr = sc.nvr
  /\ pc = "idle"
  /\ plates = <<>>
  /\ decoder = "none"
  /\ idx = 0
  /\ handed = <<>>
  /\ rows = <<>>
  /\ uploads = <<>>
  /\ response = NoResponse
  /\ clock = 10
  /\ nextId = 1
  /\ authenticated = FALSE
  /\ processed_events = {}
  /\ events = <<>>
  /\ bidx = 0
  /\ pidx = 0
  /\ run = NoRun
  /\ summary = NoSummary
  /\ attempt = [o |-> QuietEnv, sinkOk |-> TRUE]
  /\ calls = <<>>
  /\ invocation = <<>>

\* ---------------------------------------------------------- webhook path
\* main.license_plate_webhook up to the loop of
\* process_license_plate_detection: extraction; no plates answers at once
ReceiveWebhook ==
  /\ pc = "idle"
  /\ LET plate_data == ExtractPlateData(request) IN
       /\ decoder' = Dispatch(request)
       /\ plates' = plate_data
       /\ IF plate_data = <<>>
          THEN /\ response' = [status |-> 500, plate_number |-> <<>>,
                               error |-> "No valid license plate data found"]
               /\ pc' = "responded"
               /\ idx' = 0
          ELSE /\ response' = response
               /\ pc' = "plates"
               /\ idx' = 1
  /\ UNCHANGED << config, request, nvr, handed, rows, uploads, clock, nextId,
                  authenticated, attempt >>
  /\ UNCHANGED backfillVars
  /\ UNCHANGED helperVars

\* one turn of the loop of process_license_plate_detection: enrich, store
\* thumbnails, insert; the turn after the last plate answers 200, a raising
\* insert answers 500
ProcessPlate ==
  /\ pc = "plates"
  /\ idx <= Len(plates)
  /\ \E o \in WebhookEnvs(EnrichIndividualPlateData(plates[idx], request, clock),
                          request, config),
        sinkOk \in BOOLEAN :
       /\ attempt' = [o |-> o, sinkOk |-> sinkOk]
       /\ LET plate_info == plates[idx]
              enriched == EnrichIndividualPlateData(plate_info, request, clock)
              res == IF config.STORE_IMAGES
                     THEN ProcessThumbnailsForPlate(enriched, request, config,
                                                    o, nextId)
                     ELSE NoResults
              enriched_plate ==
                IF ResultsEmpty(res) THEN enriched
                ELSE [enriched EXCEPT
                        !.thumbnail =
                          IF res.thumbnail # NoArtifact
                          THEN res.thumbnail ELSE @,
                        !.cropped_thumbnail =
                          IF res.cropped_thumbnail # NoArtifact
                          THEN res.cropped_thumbnail ELSE @]
              raised == PrepareRowRaises(enriched_plate) \/ ~sinkOk
          IN /\ uploads' = uploads \o res.writes
             /\ handed' = Append(handed, enriched_plate)
             /\ authenticated' = IF res.session \in {"open", "closed"}
                                 THEN res.session = "open" ELSE authenticated
             /\ IF raised
                THEN /\ rows' = rows
                     /\ response' = [status |-> 500, plate_number |-> <<>>,
                                     error |-> "insert failed"]
                     /\ pc' = "responded"
                     /\ idx' = idx
                ELSE /\ rows' = Append(rows, PrepareRowData(enriched_plate, nextId))
                     /\ idx' = idx + 1
                     /\ IF idx = Len(plates)
                        THEN /\ response' =
                                  [status |-> 200,
                                   plate_number |->
                                     [i \in 1..Len(plates) |-> plates[i].plate_number],
                                   error |-> ""]
                             /\ pc' = "responded"
                        ELSE /\ response' = response
                             /\ pc' = "plates"
  /\ clock' = clock + 1
  /\ nextId' = nextId + 1
  /\ UNCHANGED << config, request, nvr, plates, decoder >>
  /\ UNCHANGED backfillVars
  /\ UNCHANGED helperVars

\* --------------------------------------------------------- backfill path
ChunkSize == 7

\* UniFiProtectClient._extract_event_info
ExtractEventInfo(event) ==
  LET thumbs == event.detected_thumbnails
      one(i) ==
        LET thumbnail == thumbs[i] IN
        IF thumbnail.type = "vehicle" /\ Truthy(thumbnail.name)
        THEN << [plate_number |-> thumbnail.name,
                 timestamp |-> IF thumbnail.clock_best_wall.k = "dt"
                               THEN IsoFormat(thumbnail.clock_best_wall)
                               ELSE NoneTs,
                 cropped_id |-> thumbnail.cropped_id,
                 confidence |-> NoConfidence,
                 vehicle_type |->
                   VehicleAttribute(thumbnail.attributes.vehicle_type),
                 vehicle_color |->
                   VehicleAttribute(thumbnail.attributes.color)] >>
        ELSE <<>>
  IN [id |-> event.id,
      start |-> IF event.start.k = "dt" THEN IsoFormat(event.start) ELSE NoneTs,
      camera_id |-> event.camera_id,
      license_plates |-> Flatten([i \in 1..Len(thumbs) |-> one(i)])]

\* UniFiProtectClient.get_recent_events(hours, ["smart_detect"]); ok is
\* whether the NVR answers the listing request
GetRecentEvents(hours, auth, ok) ==
  IF ~auth \/ ~ok THEN <<>>
  ELSE LET listed == SelectSeq(nvr, LAMBDA e : e.age * 24 < hours
                                               /\ e.type = "smart_detect")
       IN [i \in 1..Len(listed) |-> ExtractEventInfo(listed[i])]

\* the same loop without the test on processed_events
RECURSIVE FilterChunkNoDedup(_, _, _)
FilterChunkNoDedup(listing, kept, seen) ==
  IF listing = <<>> THEN [kept |-> kept, seen |-> seen]
  ELSE LET event == Head(listing) IN
       IF event.license_plates # <<>>
       THEN FilterChunkNoDedup(Tail(listing), Append(kept, event),
                               seen \cup {event.id})
       ELSE FilterChunkNoDedup(Tail(listing), kept, seen)

\* the filter-and-deduplicate loop of _get_license_plate_events over one
\* listing: the retained events and the ids seen
RECURSIVE FilterChunk(_, _, _)
FilterChunk(listing, kept, seen) ==
  IF listing = <<>> THEN [kept |-> kept, seen |-> seen]
  ELSE LET event == Head(listing) IN
       IF event.license_plates # <<>> /\ event.id \notin seen
       THEN FilterChunk(Tail(listing), Append(kept, event), seen \cup {event.id})
       ELSE FilterChunk(Tail(listing), kept, seen)

\* DetectionBackfiller._get_license_plate_events from chunk start_day on
RECURSIVE GetLicensePlateEvents(_, _, _, _, _)
GetLicensePlateEvents(start_day, days, all_events, seen, ok) ==
  IF start_day >= days THEN [kept |-> all_events, seen |-> seen]
  ELSE LET end_day == IF start_day + ChunkSize < days
                      THEN start_day + ChunkSize ELSE days
           listing == GetRecentEvents(end_day * 24, TRUE, ok[start_day \div ChunkSize])
           f == FilterChunk(listing, all_events, seen)
       IN GetLicensePlateEvents(start_day + ChunkSize, days, f.kept, f.seen, ok)

\* the time range of every listing request _get_license_plate_events sends,
\* in hours before now: get_recent_events(hours) asks for [now - hours, now]
RECURSIVE ListingRanges(_, _)
ListingRanges(start_day, days) ==
  IF start_day >= days THEN <<>>
  ELSE LET end_day == IF start_day + ChunkSize < days
                      THEN start_day + ChunkSize ELSE days
       IN << [start |-> end_day * 24, end |-> 0] >>
          \o ListingRanges(start_day + ChunkSize, days)

\* the detection_time of DetectionBackfiller._enrich_plate_data
BackfillDetectionTime(plate_ts, start, t) ==
  IF TsTruthy(plate_ts)
  THEN IF IsoParses(plate_ts) THEN Ts("dt", plate_ts.q, plate_ts.r) ELSE UtcNow(t)
  ELSE IF TsTruthy(start)
  THEN IF IsoParses(start) THEN Ts("dt", start.q, start.r) ELSE UtcNow(t)
  ELSE UtcNow(t)

\* DetectionBackfiller._parse_event_timestamp
ParseEventTimestamp(start, fallback_time) ==
  IF ~TsTruthy(start) THEN fallback_time
  ELSE IF IsoParses(start) THEN Ts("dt", start.q, start.r) ELSE fallback_time

\* DetectionBackfiller._enrich_plate_data before the thumbnails
BackfillEnrichPlateData(plate_info, event, t, auth) ==
  LET detection_time == BackfillDetectionTime(plate_info.timestamp, event.start, t)
  IN [plate_number |-> plate_info.plate_number,
      confidence |-> DefaultConfidence,
      cropped_id |-> plate_info.cropped_id,
      plate_detection_timestamp |-> detection_time,
      vehicle_type_confidence |-> IF plate_info.vehicle_type.present
                                  THEN plate_info.vehicle_type.confidence
                                  ELSE 0,
      vehicle_color_confidence |-> IF plate_info.vehicle_color.present
                                   THEN plate_info.vehicle_color.confidence
                                   ELSE 0,
      device_id |-> event.camera_id,
      detection_type |-> "",
      detection_timestamp |-> detection_time,
      camera_id |-> event.camera_id,
      event_id |-> event.id,
      event_timestamp |-> ParseEventTimestamp(event.start, detection_time),
      snapshot_url |-> IF auth THEN "event_thumbnail_url" ELSE "",
      processing_timestamp |-> UtcNow(t),
      processed_by |-> "backfill_script",
      raw_detection_data |-> StrOf(event),
      thumbnail |-> NoArtifact,
      cropped_thumbnail |-> NoArtifact]

\* DetectionBackfiller._process_thumbnails_for_plate
BackfillProcessThumbnails(plate_data, cfg, o, uuid) ==
  LET ts == IsoFormat(plate_data.detection_timestamp)
      fname == [ty \in FallbackTypes |->
                  GenerateFilename(plate_data.plate_number, ts,
                                   plate_data.event_id, ty, uuid)]
      r1 == IF cfg.STORE_EVENT_SNAPSHOTS /\ plate_data.snapshot_url # ""
               /\ NvrStoreSucceeds(o.snapshot)
            THEN StoreFull(NoResults, fname["event_snapshot"],
                           o.snapshot = "oversize")
            ELSE NoResults
      r2 == IF cfg.STORE_CROPPED_THUMBNAILS /\ plate_data.cropped_id # ""
               /\ plate_data.camera_id # "" /\ NvrStoreSucceeds(o.crop)
            THEN StoreCrop(r1, fname["license_plate_crop"], o.crop = "oversize")
            ELSE r1
  IN IF ResultsEmpty(r2)
     THEN FallbackLoop(r2,
            IF plate_data.camera_id = "" THEN <<>>
            ELSE (IF plate_data.event_id # "" THEN << "event_snapshot" >> ELSE <<>>)
                 \o << "live_snapshot" >>,
            fname, o.fb)
     ELSE r2

DaysChoices == {1, 8}
Chunks == 0..1

\* DetectionBackfiller.run_backfill up to its loop over events: connect,
\* list and deduplicate; a refused connection or an empty listing returns.
\* run.seq counts the runs of the instance.
BeginRun ==
  /\ \E days \in DaysChoices, dry_run \in BOOLEAN, connectOk \in BOOLEAN,
        listOk \in [Chunks -> BOOLEAN] :
       /\ connectOk \/ \A c \in Chunks : listOk[c]
       /\ days <= ChunkSize => listOk[1]
       /\ IF ~connectOk
          THEN /\ summary' = [NoSummary EXCEPT !.returned = TRUE]
               /\ run' = [NoRun EXCEPT !.days = days, !.dry_run = dry_run,
                                       !.seq = run.seq + 1]
               /\ UNCHANGED << processed_events, events, bidx, pidx >>
               /\ authenticated' = FALSE
               /\ pc' = "done"
          ELSE LET r == GetLicensePlateEvents(0, days, <<>>, processed_events,
                                              listOk)
               IN /\ processed_events' = r.seen
                  /\ events' = r.kept
                  /\ run' = [NoRun EXCEPT !.days = days, !.dry_run = dry_run,
                                          !.requests = ListingRanges(0, days),
                                          !.seq = run.seq + 1]
                  /\ IF r.kept = <<>>
                     THEN /\ summary' = [NoSummary EXCEPT !.returned = TRUE,
                                                          !.success = TRUE]
                          /\ authenticated' = FALSE
                          /\ pc' = "done"
                          /\ UNCHANGED << bidx, pidx >>
                     ELSE /\ summary' = summary
                          /\ authenticated' = TRUE
                          /\ pc' = "backfill"
                          /\ bidx' = 1
                          /\ pidx' = 1
  /\ UNCHANGED << config, request, nvr, handed, rows, uploads, clock, nextId,
                  attempt >>
  /\ UNCHANGED webhookVars
  /\ UNCHANGED helperVars

\* the script is started while no webhook is being handled, before or after
\* a delivery
StartBackfill ==
  /\ pc \in {"idle", "responded"}
  /\ BeginRun

\* an insert that pays no attention to dry_run
BackfillInsertAlways(table, dry_run, raised, row) ==
  IF raised THEN table ELSE Append(table, row)

\* the branch on dry_run in _process_event: the table after the plate
BackfillInsert(table, dry_run, raised, row) ==
  IF dry_run \/ raised THEN table ELSE Append(table, row)

\* the bookkeeping that drops a failed event without a trace
RecordOutcomeSilent(r, event, raised, last) ==
  IF raised THEN [r EXCEPT !.event_inserted = 0]
  ELSE IF last
  THEN [r EXCEPT !.records_inserted = @ + r.event_inserted + 1,
                 !.event_inserted = 0]
  ELSE [r EXCEPT !.event_inserted = @ + 1]

\* the bookkeeping of run_backfill and _process_event after one plate of
\* event: a raising plate ends the event with its id in errors, the last
\* plate adds the event's count to records_inserted
RecordOutcome(r, event, raised, last) ==
  IF raised THEN [r EXCEPT !.errors = Append(@, event.id),
                           !.event_inserted = 0]
  ELSE IF last
  THEN [r EXCEPT !.records_inserted = @ + r.event_inserted + 1,
                 !.event_inserted = 0]
  ELSE [r EXCEPT !.event_inserted = @ + 1]

\* one turn of the loop of _process_event, inside one turn of the loop of
\* run_backfill: enrich one plate of events[bidx] and insert it unless the
\* run is dry; a raising insert ends the event with an entry in errors
ProcessEventPlate ==
  /\ pc = "backfill"
  /\ bidx <= Len(events)
  /\ \E o \in BackfillEnvs(BackfillEnrichPlateData(
                             events[bidx].license_plates[pidx], events[bidx],
                             clock, authenticated), config),
        sinkOk \in BOOLEAN :
       /\ run.dry_run => sinkOk
       /\ attempt' = [o |-> o, sinkOk |-> sinkOk]
       /\ LET event == events[bidx]
              plate_info == event.license_plates[pidx]
              enriched == BackfillEnrichPlateData(plate_info, event, clock,
                                                  authenticated)
              res == IF config.store_thumbnails
                     THEN BackfillProcessThumbnails(enriched, config, o, nextId)
                     ELSE NoResults
              enriched_plate ==
                [enriched EXCEPT
                   !.thumbnail = IF res.thumbnail # NoArtifact
                                 THEN res.thumbnail ELSE @,
                   !.cropped_thumbnail = IF res.cropped_thumbnail # NoArtifact
                                         THEN res.cropped_thumbnail ELSE @]
              raised == ~run.dry_run
                        /\ (PrepareRowRaises(enriched_plate) \/ ~sinkOk)
              last == pidx = Len(event.license_plates)
          IN /\ uploads' = uploads \o res.writes
             /\ handed' = IF run.dry_run THEN handed
                          ELSE Append(handed, enriched_plate)
             /\ rows' = BackfillInsert(rows, run.dry_run, raised,
                                       PrepareRowData(enriched_plate, nextId))
             /\ run' = RecordOutcome(run, event, raised, last)
             /\ IF raised \/ last
                THEN /\ bidx' = bidx + 1
                     /\ pidx' = 1
                ELSE /\ bidx' = bidx
                     /\ pidx' = pidx + 1
  /\ clock' = clock + 1
  /\ nextId' = nextId + 1
  /\ UNCHANGED << config, request, nvr, pc, authenticated, processed_events,
                  events, summary >>
  /\ UNCHANGED webhookVars
  /\ UNCHANGED helperVars

\* the end of run_backfill: the summary, then the finally clause's disconnect
FinishBackfill ==
  /\ pc = "backfill"
  /\ bidx > Len(events)
  /\ summary' = [returned |-> TRUE, success |-> TRUE,
                 events_found |-> Len(events),
                 records_inserted |-> run.records_inserted,
                 errors |-> run.errors]
  /\ authenticated' = FALSE
  /\ pc' = "done"
  /\ UNCHANGED << config, request, nvr, handed, rows, uploads, clock, nextId,
                  processed_events, events, bidx, pidx, run, attempt >>
  /\ UNCHANGED webhookVars
  /\ UNCHANGED helperVars

Next ==
  \/ ReceiveWebhook
  \/ ProcessPlate
  \/ StartBackfill
  \/ ProcessEventPlate
  \/ FinishBackfill

\* ---------------------------------------------------------------- inputs
RECURSIVE SeqUpTo(_, _)
SeqUpTo(S, n) ==
  IF n = 0 THEN {<<>>}
  ELSE LET shorter == SeqUpTo(S, n - 1) IN
       shorter \cup {Append(q, x) : q \in {y \in shorter : Len(y) = n - 1}, x \in S}

\* a trigger timestamp as the NVR sends it (test_extraction.py: 1758350753085)
SampleMillis == Ts("num", 1758350753, 85)
\* instants the payloads and the NVR events speak of, all before the clock
PlateInstant == Ts("iso", 0, 2)
EventInstant == Ts("iso", 0, 3)

TriggerTimestamps == {NoneTs, SampleMillis, PlateInstant, BadTs}
EventStarts == {EmptyTs, EventInstant, BadTs}

Triggers(tss) ==
  [key : Keys, value : Str, eventId : {"", "E1"}, device : {"D1"}, timestamp : tss]

Thumbnails(tss, crops) ==
  [type : {"vehicle", "person"}, name : Str, clock_best_wall : tss,
   cropped_id : crops, attributes : {NoAttributes}]

Payload(alarm, trigs, thumb, type, thumbs, start, ev, cam, snap) ==
  [hasAlarm |-> alarm, hasTriggers |-> alarm, triggers |-> trigs,
   thumbnail |-> thumb, type |-> type, detected_thumbnails |-> thumbs,
   eventStart |-> start, eventId |-> ev, cameraId |-> cam, snapshotUrl |-> snap]

PlateTrigger(ts) ==
  [key |-> "license_plate_unknown", value |-> << "a" >>, eventId |-> "E1",
   device |-> "D1", timestamp |-> ts]

VehicleThumbnail(ts, crop) ==
  [type |-> "vehicle", name |-> << "a" >>, clock_best_wall |-> ts,
   cropped_id |-> crop, attributes |-> NoAttributes]

\* alarm deliveries: every list of triggers, over every plate text
AlarmPayloads ==
  { Payload(TRUE, trigs, "", "motion", <<>>, EventInstant, "", "", "") :
      trigs \in SeqUpTo(Triggers({SampleMillis}), MaxTriggers) }

\* smart-detection deliveries, with and without an (empty) alarm.triggers
SmartPayloads ==
  { Payload(alarm, <<>>, "", type, thumbs, EventInstant, "EV1", "CAM1", "") :
      alarm \in BOOLEAN, type \in {"smart_detection", "motion"},
      thumbs \in SeqUpTo(Thumbnails({PlateInstant}, {"C1"}), MaxThumbs) }

\* deliveries that carry the markers of both formats
MixedPayloads ==
  { Payload(TRUE, trigs, "", "smart_detection", thumbs, EventInstant, "", "", "") :
      trigs \in SeqUpTo(Triggers({SampleMillis}), 1),
      thumbs \in SeqUpTo(Thumbnails({PlateInstant}, {"C1"}), 1) }

\* one plate, every combination of plate timestamp and event start
TimedPayloads ==
  { Payload(TRUE, << PlateTrigger(ts) >>, "", "motion", <<>>, start, "", "", "") :
      ts \in TriggerTimestamps, start \in EventStarts }
  \cup
  { Payload(FALSE, <<>>, "", "smart_detection", << VehicleThumbnail(ts, "C1") >>,
            start, "EV1", "CAM1", "") :
      ts \in TriggerTimestamps, start \in EventStarts }

\* vehicle classifications a thumbnail may carry
AttributeChoices == {NoAttribute, Attribute("car", 90), BareAttribute("car")}
VehicleAttributes == [vehicle_type : AttributeChoices, color : AttributeChoices]

\* one plate with every vehicle classification
AttributePayloads ==
  { Payload(FALSE, <<>>, "", "smart_detection",
            << [VehicleThumbnail(PlateInstant, "C1") EXCEPT !.attributes = a] >>,
            EventInstant, "EV1", "CAM1", "") :
      a \in VehicleAttributes }

Payloads == AlarmPayloads \cup SmartPayloads \cup MixedPayloads \cup TimedPayloads
            \cup AttributePayloads

\* NVR events as uiprotect hands them over: start and clock_best_wall are
\* datetime objects or None
NvrEvent(id, type, start, age, thumbs) ==
  [id |-> id, type |-> type, start |-> start, camera_id |-> "CAM1", age |-> age,
   detected_thumbnails |-> thumbs]

NvrInstants == {NoneTs, Ts("dt", 0, 2)}
NvrStarts == {NoneTs, Ts("dt", 0, 3)}

NvrContents ==
  { << NvrEvent("E1", "smart_detect", Ts("dt", 0, 3), 0, thumbs) >> :
      thumbs \in SeqUpTo(Thumbnails({Ts("dt", 0, 2)}, {"C1"}), MaxThumbs) }
  \cup
  { << NvrEvent("E1", "smart_detect", start, 0, << VehicleThumbnail(ts, crop) >>) >> :
      start \in NvrStarts, ts \in NvrInstants, crop \in {"", "C1"} }
  \cup
  { << NvrEvent("E1", ty1, Ts("dt", 0, 3), age1,
                << VehicleThumbnail(NoneTs, "C1") >>),
       NvrEvent("E2", ty2, Ts("dt", 0, 3), age2,
                << VehicleThumbnail(NoneTs, "C1") >>) >> :
      ty1 \in {"smart_detect", "motion"}, ty2 \in {"smart_detect", "motion"},
      age1 \in {0, 7}, age2 \in {0, 7} }
  \cup
  { << NvrEvent("E1", "smart_detect", Ts("dt", 0, 3), 0,
                << [VehicleThumbnail(Ts("dt", 0, 2), "C1")
                      EXCEPT !.attributes = a] >>) >> :
      a \in VehicleAttributes }

IdlePayload == Payload(FALSE, <<>>, "", "motion", <<>>, EmptyTs, "", "", "")

Scenarios ==
  { [request |-> p, nvr |-> <<>>] : p \in Payloads }
  \cup { [request |-> IdlePayload, nvr |-> n] : n \in NvrContents }

\* the deployment that stores no images (STORE_IMAGES defaults to false;
\* the backfill is run with --no-thumbnails)
PlainConfigs ==
  { [STORE_IMAGES |-> FALSE, STORE_EVENT_SNAPSHOTS |-> FALSE,
     STORE_CROPPED_THUMBNAILS |-> FALSE, unifiConfigured |-> FALSE,
     store_thumbnails |-> FALSE] }

Init == InitWith(PlainConfigs, Scenarios)

Spec == Init /\ [][Next]_vars

\* ------------------------------------------- inputs, images being stored
\* the deployment that stores images, under every setting of the switches
\* process_thumbnails_for_plate reads (main.py reads STORE_EVENT_SNAPSHOTS and
\* STORE_CROPPED_THUMBNAILS from the Config object; config.py does not set
\* them, so their values are the external toggles of the design document)
ThumbConfigs ==
  [STORE_IMAGES : {TRUE}, STORE_EVENT_SNAPSHOTS : BOOLEAN,
   STORE_CROPPED_THUMBNAILS : BOOLEAN, unifiConfigured : BOOLEAN,
   store_thumbnails : {TRUE}]

InlineThumbnails == {"", "data_url", "other"}

\* alarm deliveries of one or two plates, with and without an inline image,
\* a snapshot url, a camera and an event
ThumbAlarmPayloads ==
  { Payload(TRUE, trigs, thumb, "motion", <<>>, EventInstant, ev, cam, snap) :
      trigs \in {<< PlateTrigger(SampleMillis) >>,
                 << PlateTrigger(SampleMillis), PlateTrigger(BadTs) >>},
      thumb \in InlineThumbnails, ev \in {"", "EV1"}, cam \in {"", "CAM1"},
      snap \in {"", "snapshot_url"} }

\* smart-detection deliveries of one plate; the payload may carry an alarm
\* object (with an inline image) that has no triggers key
ThumbSmartPayloads ==
  { [Payload(alarm, <<>>, thumb, "smart_detection",
             << VehicleThumbnail(PlateInstant, crop) >>, EventInstant,
             ev, cam, snap) EXCEPT !.hasTriggers = FALSE] :
      alarm \in BOOLEAN, thumb \in InlineThumbnails, crop \in {"", "C1"},
      ev \in {"", "EV1"}, cam \in {"", "CAM1"}, snap \in {"", "snapshot_url"} }

ThumbNvrContents ==
  { << NvrEvent("E1", "smart_detect", Ts("dt", 0, 3), 0,
                << VehicleThumbnail(Ts("dt", 0, 2), crop) >>) >> :
      crop \in {"", "C1"} }

ThumbScenarios ==
  { [request |-> p, nvr |-> <<>>] : p \in ThumbAlarmPayloads \cup ThumbSmartPayloads }
  \cup { [request |-> IdlePayload, nvr |-> n] : n \in ThumbNvrContents }

InitThumb == InitWith(ThumbConfigs, ThumbScenarios)

SpecThumb == InitThumb /\ [][Next]_vars

\* ------------------------------------------------------------ properties
\* the webhook has been received and its payload dispatched
Received == pc \in {"plates", "responded"}

\* the format the spec's classification rule assigns to a payload
Classified(webhook_data) ==
  IF webhook_data.hasTriggers /\ webhook_data.triggers # <<>> THEN "alarm"
  ELSE IF webhook_data.type = "smart_detection" THEN "smart_detection"
  ELSE "none"

\* C1: a payload is decoded by the alarm extractor iff alarm.triggers exists
\* and is non-empty, else by the smart-detection extractor iff its type is
\* "smart_detection", else by none; an empty alarm.triggers with type
\* "smart_detection" goes to the smart-detection extractor
C1_ClassificationFirstMatch ==
  Received =>
    plates = CASE Classified(request) = "alarm" -> ExtractFromAlarm(request)
               [] Classified(request) = "smart_detection" ->
                    ExtractFromSmartDetection(request)
               [] OTHER -> <<>>

\* C2: when extraction yields no plate the webhook writes no record and its
\* answer is not an error status
C2_NoPlatesIsNoOp ==
  (pc = "responded" /\ plates = <<>>) =>
    (rows = <<>> /\ handed = <<>> /\ response.status < 400)

\* the tuples the extractor read from alarm.triggers[i]
TuplesOf(i) == {j \in DOMAIN plates : plates[j].src = i}

\* C3: in an alarm payload every trigger whose key contains "license_plate"
\* and whose value is non-empty yields exactly one tuple, whose plate number
\* is the value upper-cased and trimmed
C3_OneTuplePerPlateTrigger ==
  (Received /\ Classified(request) = "alarm") =>
    \A i \in DOMAIN request.triggers :
      (ContainsLicensePlate(request.triggers[i].key)
         /\ request.triggers[i].value # <<>>) =>
        /\ Cardinality(TuplesOf(i)) = 1
        /\ \A j \in TuplesOf(i) :
             plates[j].plate_number = Strip(Upper(request.triggers[i].value))

\* C4: every tuple that leaves the extractor has non-empty plate text, and
\* so has every record that reaches the sink writer from the webhook
C4_PlateTextNonEmpty ==
  Received =>
    /\ \A j \in DOMAIN plates : plates[j].plate_number # <<>>
    /\ \A k \in DOMAIN handed : handed[k].plate_number # <<>>

\* the backfill has listed its events
Backfilling == pc \in {"backfill", "done"}

\* C5: every record built from a format without plate-level confidence (the
\* alarm and the smart-detection format) carries confidence 0.95 when it is
\* handed to the sink writer, and is written
C5_DefaultConfidenceWritten ==
  /\ \A k \in DOMAIN handed : handed[k].confidence = DefaultConfidence
  /\ (Received /\ attempt.sinkOk) => Len(rows) = Len(handed)

\* a timestamp value is present and parsable; the instant it denotes
Parsable(v) == ParseTimestamp(v) # NoneTs
Instant(v) == << ParseTimestamp(v).q, ParseTimestamp(v).r >>

\* the record's detection timestamp is the first of plate timestamp, event
\* start and current time (the time the record was processed) that is
\* present and parsable
FollowsChain(record, plate_ts, event_start) ==
  Instant(record.detection_timestamp) =
    IF Parsable(plate_ts) THEN Instant(plate_ts)
    ELSE IF Parsable(event_start) THEN Instant(event_start)
    ELSE Instant(record.processing_timestamp)

\* C6: the detection timestamp of a record is the tuple's own timestamp when
\* present and parsable, else the event start when present and parsable,
\* else the current time; a parse failure counts as absence
C6_TimestampFallbackChain ==
  /\ Received =>
       \A k \in DOMAIN handed :
         FollowsChain(handed[k], plates[k].timestamp, request.eventStart)
  /\ (Backfilling /\ handed # <<>>) =>
       FollowsChain(handed[1], events[1].license_plates[1].timestamp,
                    events[1].start)

\* C7: the detection timestamp is never null, in the record handed to the
\* sink writer and in the row built from it, on the webhook and the backfill
\* path, whatever the plate and event timestamps are
C7_DetectionTimestampNeverNull ==
  /\ \A k \in DOMAIN handed : handed[k].detection_timestamp.k \notin {"none", "empty"}
  /\ \A i \in DOMAIN rows : rows[i].detection_timestamp # NoneTs

\* a row was written for a plate whose own timestamp and whose event start
\* are both malformed
C7_Witness ==
  /\ Received /\ rows # <<>>
  /\ request.eventStart = BadTs
  /\ request.triggers # <<>> /\ request.triggers[1].timestamp = BadTs
  /\ rows[1].detection_timestamp.k = "fmt"

\* C8: the plate number of every persisted detection is upper-cased and
\* trimmed, from the webhook's alarm and smart-detection branches and from
\* the backfill
C8_PersistedPlateNormalized ==
  \A i \in DOMAIN rows : rows[i].plate_number = Strip(Upper(rows[i].plate_number))

\* C9: the raw detection data of every persisted row is the serialization of
\* the whole original payload (webhook) or event (backfill)
C9_RawPayloadPersisted ==
  /\ Received => \A i \in DOMAIN rows : rows[i].raw_detection_data.of = {request}
  /\ Backfilling =>
       \A i \in DOMAIN rows :
         \E b \in DOMAIN events : rows[i].raw_detection_data.of = {events[b]}

\* the sources process_thumbnails_for_plate tried for the last record handed
\* over by the webhook, and how each came out
InlineTried == request.hasAlarm /\ request.thumbnail = "data_url"
SnapshotTried ==
  config.STORE_EVENT_SNAPSHOTS /\ handed[Len(handed)].snapshot_url # ""
CropTried ==
  /\ config.STORE_CROPPED_THUMBNAILS
  /\ handed[Len(handed)].cropped_id # ""
  /\ handed[Len(handed)].camera_id # ""
FullSceneStored ==
  \/ InlineTried /\ attempt.o.inline = "ok"
  \/ SnapshotTried /\ attempt.o.snapshot = "ok"
FullSceneFailed ==
  /\ InlineTried \/ SnapshotTried
  /\ InlineTried => attempt.o.inline # "ok"
  /\ SnapshotTried => attempt.o.snapshot # "ok"
CropStored == CropTried /\ attempt.o.crop = "ok"
CropFailed == CropTried /\ attempt.o.crop # "ok"
\* step 4 runs only when nothing was stored
FallbackIdle == ~config.unifiConfigured \/ FullSceneStored \/ CropStored

MaxCalls == 2

KeyTimestamps == {PlateInstant, BadTs}
KeyImageTypes == {"event_snapshot", "license_plate_crop"}

\* the numbers around the scale test, and one instant in both scales
NumericSamples ==
  { Ts("num", 0, 0), Ts("num", 9999999, 998), Ts("num", 9999999, 999),
    Ts("num", 10000000, 0), Ts("num", 1758468, 216),
    Ts("num", 1758468216, 321), SampleMillis }

CallGenerateFilename ==
  /\ pc = "idle"
  /\ Len(calls) < MaxCalls
  /\ \E plate_number \in Str, detection_timestamp \in KeyTimestamps,
        event_id \in {"", "E1"}, image_type \in KeyImageTypes :
       calls' = Append(calls,
                  [fn |-> "_generate_filename",
                   args |-> << plate_number, detection_timestamp, event_id,
                               image_type >>,
                   result |-> GenerateFilename(plate_number, detection_timestamp,
                                               event_id, image_type, nextId)])
  /\ nextId' = nextId + 1
  /\ UNCHANGED << config, request, nvr, pc, handed, rows, uploads, clock,
                  authenticated, attempt, invocation >>
  /\ UNCHANGED webhookVars
  /\ UNCHANGED backfillVars

CallParseTimestamp ==
  /\ pc = "idle"
  /\ Len(calls) < MaxCalls
  /\ \E timestamp_value \in NumericSamples :
       calls' = Append(calls,
                  [fn |-> "_parse_timestamp", args |-> << timestamp_value >>,
                   result |-> ParseTimestamp(timestamp_value)])
  /\ UNCHANGED << config, request, nvr, pc, handed, rows, uploads, clock, nextId,
                  authenticated, attempt, invocation >>
  /\ UNCHANGED webhookVars
  /\ UNCHANGED backfillVars

NextCalls == CallGenerateFilename \/ CallParseTimestamp

InitCalls == InitWith(PlainConfigs, {[request |-> IdlePayload, nvr |-> <<>>]})

SpecCalls == InitCalls /\ [][NextCalls]_vars

\* C11: the storage key is a function of (plateNumber, detectionTimestamp,
\* eventId, imageType): two calls with the same four arguments return the
\* same key, also when the timestamp cannot be parsed
C11_KeyDeterministic ==
  \A i, j \in DOMAIN calls :
    (calls[i].fn = "_generate_filename" /\ calls[j].fn = "_generate_filename"
       /\ calls[i].args = calls[j].args)
      => calls[i].result = calls[j].result

\* a number n = q*1000 + r with 0 <= r < 1000 exceeds 9,999,999,999 exactly
\* when q >= 10,000,000
ExceedsThreshold(v) == v.q >= 10000000

\* the calls of the timestamp normalizer on a non-zero number
NumericCalls ==
  {i \in DOMAIN calls : /\ calls[i].fn = "_parse_timestamp"
                        /\ calls[i].args[1].k = "num"
                        /\ ~(calls[i].args[1].q = 0 /\ calls[i].args[1].r = 0)}

\* C14: the timestamp normalizer reads a number as milliseconds exactly when
\* it exceeds 9,999,999,999 and as seconds otherwise, so a millisecond value
\* and the same instant in whole seconds give the same wall-clock second
C14_MillisThreshold ==
  /\ \A i \in NumericCalls :
       LET v == calls[i].args[1] IN
       calls[i].result = IF ExceedsThreshold(v)
                         THEN Ts("fmt", v.q \div 1000, v.q % 1000)
                         ELSE Ts("fmt", v.q, v.r)
  /\ \A i, j \in NumericCalls :
       LET ms == calls[i].args[1]
           sec == calls[j].args[1]
       IN (ExceedsThreshold(ms) /\ ~ExceedsThreshold(sec)
             /\ ms.q \div 1000 = sec.q /\ ms.q % 1000 = sec.r)
            => calls[i].result = calls[j].result

\* 1758468216321 and 1758468216 were both normalized, to the same second
C14_Witness ==
  /\ Len(calls) = 2
  /\ calls[1].fn = "_parse_timestamp" /\ calls[2].fn = "_parse_timestamp"
  /\ calls[1].args[1] = Ts("num", 1758468216, 321)
  /\ calls[2].args[1] = Ts("num", 1758468, 216)
  /\ calls[1].result = Ts("fmt", 1758468, 216)
  /\ calls[2].result = calls[1].result

\* ------------------------------------ a delivery followed by a backfill
\* one upstream event E1, delivered by webhook (in either format) and still
\* held by the NVR when the backfill runs: same plate text, same instants
ReplayNames == {<< "A" >>, << "a" >>}

ReplayScenarios ==
  { [request |-> [Payload(FALSE, <<>>, "", "smart_detection",
                          << [VehicleThumbnail(PlateInstant, "C1")
                                EXCEPT !.name = name] >>,
                          EventInstant, "E1", "CAM1", "snapshot_url")
                    EXCEPT !.hasAlarm = FALSE],
     nvr |-> << NvrEvent("E1", "smart_detect", Ts("dt", 0, 3), 0,
                         << [VehicleThumbnail(Ts("dt", 0, 2), "C1")
                               EXCEPT !.name = name] >>) >>] :
      name \in ReplayNames }
  \cup
  { [request |-> Payload(TRUE, << [PlateTrigger(PlateInstant) EXCEPT !.value = name] >>,
                         thumb, "motion", <<>>, EventInstant, "E1", "CAM1",
                         "snapshot_url"),
     nvr |-> << NvrEvent("E1", "smart_detect", Ts("dt", 0, 3), 0,
                         << [VehicleThumbnail(Ts("dt", 0, 2), "C1")
                               EXCEPT !.name = name] >>) >>] :
      name \in ReplayNames, thumb \in {"", "data_url"} }

\* event snapshots are stored by both entry points
ReplayConfigs == {c \in ThumbConfigs : c.STORE_EVENT_SNAPSHOTS /\ ~c.unifiConfigured}

InitReplay == InitWith(ReplayConfigs, ReplayScenarios)

SpecReplay == InitReplay /\ [][Next]_vars

FromWebhook(record) == record.processed_by = "unifi-protect-cloud-function"
FromBackfill(record) == record.processed_by = "backfill_script"

\* C12: when a backfill re-processes an event that a webhook delivered
\* before, the event's image is stored under the key the webhook used: the
\* bucket never gets a second object for the same event image under a
\* different key
C12_ReplaySameKey ==
  \A i, j \in DOMAIN handed :
    (FromWebhook(handed[i]) /\ FromBackfill(handed[j])
       /\ handed[i].event_id = handed[j].event_id) =>
      /\ (handed[i].thumbnail # NoArtifact /\ handed[j].thumbnail # NoArtifact)
           => handed[i].thumbnail.path = handed[j].thumbnail.path
      /\ (handed[i].cropped_thumbnail # NoArtifact
            /\ handed[j].cropped_thumbnail # NoArtifact)
           => handed[i].cropped_thumbnail.path = handed[j].cropped_thumbnail.path

\* -------------------------------------------------- confidence fields
\* the row came from an alarm delivery, whose triggers carry no vehicle
\* classification
FromAlarmDelivery(row) == FromWebhook(row) /\ decoder = "alarm"

\* C13: in every stored row the confidence, the vehicle type confidence and
\* the vehicle colour confidence are floats, never null, and a vehicle
\* confidence the source did not supply is 0.0
C13_ConfidenceFieldsAreFloats ==
  \A i \in DOMAIN rows :
    /\ rows[i].confidence # NoConfidence
    /\ rows[i].vehicle_type_confidence # NoConfidence
    /\ rows[i].vehicle_color_confidence # NoConfidence
    /\ FromAlarmDelivery(rows[i]) =>
         /\ rows[i].vehicle_type_confidence = 0
         /\ rows[i].vehicle_color_confidence = 0
\* ------------------------------------------------ backfill deduplication
\* the rows the backfill wrote for event id
BackfillRowsOf(id) ==
  {i \in DOMAIN rows : FromBackfill(rows[i]) /\ rows[i].event_id = id}

\* the plates the NVR holds for event id
NvrPlatesOf(id) ==
  {<<i, j>> \in (DOMAIN nvr) \X (1..MaxThumbs) :
     /\ nvr[i].id = id
     /\ j \in DOMAIN nvr[i].detected_thumbnails}

\* C15: within one backfill run an event id is retained at most once over
\* the overlapping chunks, so the run never inserts the records of one
\* event twice
C15_EventProcessedOnce ==
  /\ \A i, j \in DOMAIN events : events[i].id = events[j].id => i = j
  /\ \A i \in DOMAIN nvr :
       Cardinality(BackfillRowsOf(nvr[i].id))
         <= Cardinality(NvrPlatesOf(nvr[i].id))

\* a run over two chunks that both list the recent event: the first chunk
\* retains it, the second lists the older event before it and meets it
\* again; both events are written once
C15_Witness ==
  /\ pc = "done"
  /\ run.days > ChunkSize
  /\ Len(nvr) = 2
  /\ nvr[1].age = 7 /\ nvr[2].age = 0
  /\ Len(events) = 2
  /\ events[1].id = nvr[2].id /\ events[2].id = nvr[1].id
  /\ Cardinality(BackfillRowsOf(nvr[1].id)) = 1
  /\ Cardinality(BackfillRowsOf(nvr[2].id)) = 1
\* ------------------------------------------------- backfill error handling
\* the run went through its loop over events and returned
RunCompleted == pc = "done" /\ events # <<>>

\* every plate of events[i] was written
FullyWritten(i) ==
  Cardinality(BackfillRowsOf(events[i].id)) = Len(events[i].license_plates)

\* C16: a failing event is recorded in errors under its id and does not end
\* the run: every other event, the later ones included, is written in full
\* and the run returns its aggregate summary
C16_EventFailureIsolated ==
  RunCompleted =>
    /\ summary.returned /\ summary.success
    /\ summary.events_found = Len(events)
    /\ \A k \in DOMAIN summary.errors :
         \E i \in DOMAIN events : events[i].id = summary.errors[k]
    /\ ~run.dry_run =>
         \A i \in DOMAIN events :
           FullyWritten(i) <=> ~InSeq(events[i].id, summary.errors)

\* the first of two events failed and the second was written
C16_Witness ==
  /\ RunCompleted
  /\ ~run.dry_run
  /\ Len(events) = 2
  /\ summary.errors = << events[1].id >>
  /\ ~FullyWritten(1)
  /\ FullyWritten(2)
\* ---------------------------------------------------------------- dry run
RECURSIVE PlateCount(_)
PlateCount(evs) ==
  IF evs = <<>> THEN 0
  ELSE Len(Head(evs).license_plates) + PlateCount(Tail(evs))

\* the last plate of the run met an NVR that served the event snapshot
\* while event snapshots are being stored
SnapshotServed ==
  /\ config.store_thumbnails
  /\ config.STORE_EVENT_SNAPSHOTS
  /\ attempt.o.snapshot = "ok"

\* C17: a dry run inserts nothing into the warehouse, while the events are
\* still listed, every plate is still enriched and counted, and the images
\* are still fetched and stored when thumbnail storage is on
C17_DryRunInsertsNothing ==
  run.dry_run =>
    /\ \A i \in DOMAIN rows : ~FromBackfill(rows[i])
    /\ RunCompleted =>
         /\ summary.events_found = Len(events)
         /\ summary.records_inserted = PlateCount(events)
         /\ SnapshotServed => uploads # <<>>

\* a completed dry run that stored an image and wrote no row
C17_Witness ==
  /\ run.dry_run
  /\ RunCompleted
  /\ SnapshotServed
  /\ uploads # <<>>
  /\ rows = <<>>
  /\ summary.records_inserted >= 1
\* ------------------------------------------------------- sink failures
\* the delivery carried plates and has been answered
WebhookAnswered == response # NoResponse /\ plates # <<>>

\* the rows the webhook wrote
WebhookRows == {i \in DOMAIN rows : FromWebhook(rows[i])}

\* C18: a failing insert costs only the record concerned and is surfaced:
\* the webhook answers 5xx and every other plate of the delivery is written;
\* the backfill lists the event in errors, writes every other plate and
\* goes on with the next event
C18_SinkFailureCostsOneRecord ==
  /\ WebhookAnswered =>
       /\ Cardinality(WebhookRows) < Len(plates) => response.status >= 500
       /\ Cardinality(WebhookRows) >= Len(plates) - 1
  /\ (RunCompleted /\ ~run.dry_run) =>
       \A i \in DOMAIN events :
         ~FullyWritten(i) =>
           /\ InSeq(events[i].id, summary.errors)
           /\ Cardinality(BackfillRowsOf(events[i].id))
                >= Len(events[i].license_plates) - 1
\* ------------------------------------------------------ vehicle triggers
\* trigger i says a vehicle was seen in an event and gives no plate text
VehicleOnly(i) ==
  /\ request.triggers[i].key = "vehicle"
  /\ ~Truthy(request.triggers[i].value)
  /\ request.triggers[i].eventId # ""

\* no trigger of the alarm is a license_plate trigger with a plate text
NoSiblingPlate ==
  \A j \in DOMAIN request.triggers :
    ~(ContainsLicensePlate(request.triggers[j].key)
      /\ Truthy(request.triggers[j].value))

\* every trigger of the alarm that carries a plate text
ValuedTriggers == {j \in DOMAIN request.triggers : Truthy(request.triggers[j].value)}

Invocations == {1, 2}

\* deliveries of one plate, with and without an event, a camera and a
\* snapshot url
ConcurrentPayloads ==
  { Payload(TRUE, << PlateTrigger(SampleMillis) >>, thumb, "motion", <<>>,
            EventInstant, ev, cam, snap) :
      thumb \in {"", "data_url"}, ev \in {"", "EV1"}, cam \in {"", "CAM1"},
      snap \in {"", "snapshot_url"} }

ConcurrentConfigs == {c \in ThumbConfigs : ~c.STORE_CROPPED_THUMBNAILS}

\* an invocation that has extracted and enriched its plate
Invocation(webhook_data, t) ==
  [pc |-> "thumbnails",
   webhook_data |-> webhook_data,
   plate_data |-> EnrichIndividualPlateData(ExtractPlateData(webhook_data)[1],
                                            webhook_data, t),
   thumbnails |-> <<>>,
   results |-> NoResults]

InitConcurrent ==
  /\ config \in ConcurrentConfigs
  /\ request = IdlePayload /\ nvr = <<>>
  /\ pc = "concurrent"
  /\ plates = <<>> /\ decoder = "none" /\ idx = 0
  /\ handed = <<>> /\ rows = <<>> /\ uploads = <<>>
  /\ response = NoResponse
  /\ clock = 10 /\ nextId = 1
  /\ authenticated = FALSE
  /\ processed_events = {} /\ events = <<>> /\ bidx = 0 /\ pidx = 0
  /\ run = NoRun /\ summary = NoSummary
  /\ attempt = [o |-> QuietEnv, sinkOk |-> TRUE]
  /\ calls = <<>>
  /\ \E payloads \in [Invocations -> ConcurrentPayloads] :
       invocation = [t \in Invocations |-> Invocation(payloads[t], clock)]

\* the names process_thumbnails_for_plate builds for the invocation's plate
FilenamesOf(inv) ==
  [ty \in {"alarm_thumbnail"} \cup FallbackTypes |->
     GenerateFilename(inv.plate_data.plate_number,
                      inv.plate_data.detection_timestamp,
                      inv.plate_data.event_id, ty, 0)]

\* UniFiProtectClient.extract_thumbnails_from_detection: get_snapshot_url
\* returns None while the client is not authenticated
ListThumbnails(webhook_data, auth) ==
  IF auth THEN ExtractThumbnailsFromDetection(webhook_data)
  ELSE IF webhook_data.cameraId = "" THEN <<>>
  ELSE ExtractCroppedThumbnails(webhook_data)

ConcurrentUnchanged ==
  /\ UNCHANGED << config, request, nvr, pc, clock, attempt, calls >>
  /\ UNCHANGED webhookVars
  /\ UNCHANGED backfillVars

\* steps 1 to 3 of process_thumbnails_for_plate, which use no shared client
DirectThumbnails(t) ==
  /\ invocation[t].pc = "thumbnails"
  /\ LET inv == invocation[t]
         fname == FilenamesOf(inv)
         r1 == InlineStep(NoResults, inv.webhook_data, fname["alarm_thumbnail"],
                          QuietEnv)
         r2 == SnapshotStep(r1, inv.plate_data, config, fname["event_snapshot"],
                            QuietEnv)
         r3 == CropStep(r2, inv.plate_data, config, fname["license_plate_crop"],
                        QuietEnv)
     IN /\ invocation' = [invocation EXCEPT
                            ![t].results = r3,
                            ![t].pc = IF FallbackRuns(r3, config)
                                      THEN "connect" ELSE "insert"]
        /\ uploads' = uploads \o r3.writes
  /\ UNCHANGED << handed, rows, nextId, authenticated >>
  /\ ConcurrentUnchanged

\* await unifi_client.connect()
ClientConnect(t) ==
  /\ invocation[t].pc = "connect"
  /\ authenticated' = TRUE
  /\ invocation' = [invocation EXCEPT ![t].pc = "list"]
  /\ UNCHANGED << handed, rows, uploads, nextId >>
  /\ ConcurrentUnchanged

\* await unifi_client.extract_thumbnails_from_detection(webhook_data)
ClientList(t) ==
  /\ invocation[t].pc = "list"
  /\ invocation' = [invocation EXCEPT
                      ![t].thumbnails =
                        ListThumbnails(invocation[t].webhook_data, authenticated),
                      ![t].pc = "download"]
  /\ UNCHANGED << handed, rows, uploads, nextId, authenticated >>
  /\ ConcurrentUnchanged

\* one turn of the loop over thumbnails: download_thumbnail returns None
\* while the client is not authenticated, else the image is uploaded
ClientDownload(t) ==
  /\ invocation[t].pc = "download"
  /\ invocation[t].thumbnails # <<>>
  /\ LET inv == invocation[t]
         res == IF authenticated
                THEN FallbackLoop(inv.results, << Head(inv.thumbnails) >>,
                                  FilenamesOf(inv), QuietEnv.fb)
                ELSE inv.results
     IN /\ invocation' = [invocation EXCEPT ![t].results = res,
                                            ![t].thumbnails = Tail(@)]
        /\ uploads' = uploads \o SubSeq(res.writes, Len(inv.results.writes) + 1,
                                        Len(res.writes))
  /\ UNCHANGED << handed, rows, nextId, authenticated >>
  /\ ConcurrentUnchanged

\* await unifi_client.disconnect()
ClientDisconnect(t) ==
  /\ invocation[t].pc = "download"
  /\ invocation[t].thumbnails = <<>>
  /\ authenticated' = FALSE
  /\ invocation' = [invocation EXCEPT ![t].pc = "insert"]
  /\ UNCHANGED << handed, rows, uploads, nextId >>
  /\ ConcurrentUnchanged

\* enriched_plate.update(thumbnail_result) and the insert
InsertRecord(t) ==
  /\ invocation[t].pc = "insert"
  /\ LET inv == invocation[t]
         enriched_plate ==
           [inv.plate_data EXCEPT
              !.thumbnail = inv.results.thumbnail,
              !.cropped_thumbnail = inv.results.cropped_thumbnail]
     IN /\ handed' = Append(handed, enriched_plate)
        /\ rows' = IF PrepareRowRaises(enriched_plate) THEN rows
                   ELSE Append(rows, PrepareRowData(enriched_plate, nextId))
  /\ nextId' = nextId + 1
  /\ invocation' = [invocation EXCEPT ![t].pc = "done"]
  /\ UNCHANGED << uploads, authenticated >>
  /\ ConcurrentUnchanged

NextConcurrent ==
  \E t \in Invocations :
    \/ DirectThumbnails(t)
    \/ ClientConnect(t)
    \/ ClientList(t)
    \/ ClientDownload(t)
    \/ ClientDisconnect(t)
    \/ InsertRecord(t)

SpecConcurrent == InitConcurrent /\ [][NextConcurrent]_vars

\* what the invocation stores when it is handled alone
AloneResults(inv) ==
  ProcessThumbnailsForPlate(inv.plate_data, inv.webhook_data, config, QuietEnv, 0)

\* C19: two webhook invocations handled side by side share nothing but the
\* sinks: under every interleaving each one stores the thumbnails, and
\* writes the record, it stores and writes when handled alone
C19_InvocationsIndependent ==
  \A t \in DOMAIN invocation :
    invocation[t].pc = "done" =>
      /\ invocation[t].results.thumbnail = AloneResults(invocation[t]).thumbnail
      /\ invocation[t].results.cropped_thumbnail
           = AloneResults(invocation[t]).cropped_thumbnail
      /\ \E i \in DOMAIN rows :
           /\ rows[i].thumbnail = AloneResults(invocation[t]).thumbnail
           /\ rows[i].event_id = invocation[t].plate_data.event_id
\* ------------------------------------------------ full-scene slot sources
\* the last plate handled by the webhook had the alarm's inline thumbnail
\* stored as its full-scene image
InlineStored ==
  /\ Received
  /\ handed # <<>>
  /\ config.STORE_IMAGES
  /\ request.hasAlarm
  /\ request.thumbnail = "data_url"
  /\ attempt.o.inline = "ok"

\* C21: within one call of the thumbnail pipeline the first source that
\* succeeds for a slot keeps it: once the inline thumbnail is stored as the
\* full-scene image, a later event snapshot does not replace it
C21_FirstSourceKeepsSlot ==
  InlineStored =>
    handed[Len(handed)].thumbnail.path.image_type = "alarm_thumbnail"
\* --------------------------------------------- inline thumbnail, per payload
\* the blob writes of the alarm's inline thumbnail
InlineWrites == {i \in DOMAIN uploads : uploads[i].image_type = "alarm_thumbnail"}

\* C22: the alarm's inline thumbnail is stored once per payload, not once
\* per plate: one webhook invocation writes it to the bucket at most once
C22_InlineStoredOncePerPayload ==
  Received => Cardinality(InlineWrites) <= 1
\* ------------------------------------------------------- download size
\* C23: every image stored after a download is within the configured
\* maximum size, on the URL path and on the authenticated NVR path alike:
\* no record refers to an artifact made from an oversize download
C23_StoredImagesWithinLimit ==
  \A i \in DOMAIN handed :
    /\ ~handed[i].thumbnail.oversize
    /\ ~handed[i].cropped_thumbnail.oversize
\* ------------------------------------------------------- listing chunks
\* C24: the lookback window is cut into 7-day chunks: every listing request
\* spans at most 7 days, successive requests do not overlap, and together
\* they cover the window from now back to the chosen number of days
C24_ChunksPartitionWindow ==
  run.requests # <<>> =>
    /\ \A i \in DOMAIN run.requests :
         run.requests[i].start - run.requests[i].end <= ChunkSize * 24
    /\ run.requests[1].end = 0
    /\ \A i \in DOMAIN run.requests :
         i > 1 => run.requests[i].end = run.requests[i - 1].start
    /\ run.requests[Len(run.requests)].start = run.days * 24
\* ------------------------------------------- runs of one driver instance
MaxRuns == 2

\* run_backfill called again on the DetectionBackfiller that has returned
RerunBackfill ==
  /\ pc = "done"
  /\ run.seq >= 1
  /\ run.seq < MaxRuns
  /\ BeginRun

NextRerun ==
  \/ StartBackfill
  \/ ProcessEventPlate
  \/ FinishBackfill
  \/ RerunBackfill

RerunNvrContents ==
  { << NvrEvent("E1", "smart_detect", Ts("dt", 0, 3), age1,
                << VehicleThumbnail(NoneTs, "C1") >>),
       NvrEvent("E2", ty2, Ts("dt", 0, 3), age2,
                << VehicleThumbnail(NoneTs, "C1") >>) >> :
      ty2 \in {"smart_detect", "motion"}, age1 \in {0, 7}, age2 \in {0, 7} }

InitRerun ==
  InitWith(PlainConfigs, {[request |-> IdlePayload, nvr |-> n] : n \in RerunNvrContents})

SpecRerun == InitRerun /\ [][NextRerun]_vars

\* the ids of the events the current run retained
RetainedIds == {events[i].id : i \in DOMAIN events}

\* C25: the dedup set lives for one run: a second run of the same instance
\* starts with an empty set, so the set holds the events this run retained
\* and nothing of the first run, whose events are retained again
C25_DedupSetScopedToRun ==
  (run.seq >= 2 /\ run.requests # <<>>) => processed_events = RetainedIds

\* ------------------------------------------------ one tuple per trigger
\* C26: a license_plate trigger of an alarm yields at most one tuple, and so
\* at most one row, also when a value-less "vehicle" trigger with an eventId
\* stands next to it
C26_AtMostOneTuplePerTrigger ==
  decoder = "alarm" =>
    \A i \in DOMAIN request.triggers :
      ContainsLicensePlate(request.triggers[i].key) =>
        Cardinality(TuplesOf(i)) <= 1

\* ------------------------------------------------- answer and rows agree
\* C27: a delivery is all-or-nothing with respect to its answer: an error
\* answer means no row of the payload was inserted; a success answer means
\* one row per extracted plate, with every plate number listed in the answer
C27_AnswerAllOrNothing ==
  WebhookAnswered =>
    /\ response.status >= 400 => WebhookRows = {}
    /\ response.status < 400 =>
         /\ Cardinality(WebhookRows) = Len(plates)
         /\ response.plate_number =
              [i \in 1..Len(plates) |-> plates[i].plate_number]

\* ------------------------------------------------ the summary's counter
\* the rows the backfill wrote
BackfillRows == {i \in DOMAIN rows : FromBackfill(rows[i])}

\* C28: the records_inserted of a run's summary equals the number of rows
\* the run inserted, in dry runs and in runs where an event fails after some
\* of its plates were inserted as well
C28_SummaryCountsInsertedRows ==
  summary.returned => summary.records_inserted = Cardinality(BackfillRows)

\* --------------------------------------------------- NVR sessions closed
\* an operation that opens NVR sessions is under way
SessionInUse == pc = "backfill"

MaxClientCalls == 4
ConnectOutcomes == {"ok", "refused", "unavailable"}
Getters == {"get_camera_by_id", "get_recent_events", "get_snapshot_url",
            "download_thumbnail"}

\* UniFiProtectClient.connect: the flag after the call
Connect(auth, outcome) == IF outcome = "ok" THEN TRUE ELSE auth

\* UniFiProtectClient.connect: self.client after the call
ConnectClient(client, outcome) ==
  IF outcome = "unavailable" THEN client ELSE TRUE

\* UniFiProtectClient.disconnect: the flag after the call
Disconnect(auth, client) == IF client THEN FALSE ELSE auth

\* the guard at the head of a getter: TRUE when the call goes on to its body
GetterPasses(fn, auth, client) ==
  IF fn = "download_thumbnail" THEN auth /\ client ELSE auth

\* self.client after the calls logged so far
RECURSIVE ClientAfter(_)
ClientAfter(log) ==
  IF log = <<>> THEN FALSE
  ELSE LET last == log[Len(log)]
           before == ClientAfter(SubSeq(log, 1, Len(log) - 1))
       IN IF last.fn = "connect" THEN ConnectClient(before, last.args[1])
          ELSE before

\* the library is there or missing for the whole life of the process
LibraryFits(outcome) ==
  \A i \in DOMAIN calls :
    calls[i].fn = "connect" =>
      ((calls[i].args[1] = "unavailable") <=> (outcome = "unavailable"))

ClientUnchanged ==
  /\ UNCHANGED << config, request, nvr, pc, handed, rows, uploads, clock,
                  nextId, attempt, invocation >>
  /\ UNCHANGED webhookVars
  /\ UNCHANGED backfillVars

CallConnect ==
  /\ pc = "idle"
  /\ Len(calls) < MaxClientCalls
  /\ \E outcome \in ConnectOutcomes :
       /\ LibraryFits(outcome)
       /\ authenticated' = Connect(authenticated, outcome)
       /\ calls' = Append(calls, [fn |-> "connect", args |-> << outcome >>,
                                  result |-> outcome = "ok"])
  /\ ClientUnchanged

CallDisconnect ==
  /\ pc = "idle"
  /\ Len(calls) < MaxClientCalls
  /\ authenticated' = Disconnect(authenticated, ClientAfter(calls))
  /\ calls' = Append(calls, [fn |-> "disconnect", args |-> <<>>,
                             result |-> FALSE])
  /\ ClientUnchanged

\* a getter: result is TRUE when it returns something; args records the
\* flag it found and whether it went upstream.  get_snapshot_url builds its
\* answer from the configuration, the other three ask the NVR, which may
\* answer or not.
CallGetter ==
  /\ pc = "idle"
  /\ Len(calls) < MaxClientCalls
  /\ \E fn \in Getters, answered \in BOOLEAN :
       LET passes == GetterPasses(fn, authenticated, ClientAfter(calls))
       IN /\ ~passes => ~answered
          /\ (passes /\ fn = "get_snapshot_url") => answered
          /\ calls' = Append(calls,
                         [fn |-> fn,
                          args |-> << authenticated,
                                      passes /\ fn # "get_snapshot_url" >>,
                          result |-> answered])
  /\ UNCHANGED authenticated
  /\ ClientUnchanged

NextClient == CallConnect \/ CallDisconnect \/ CallGetter

InitClient == InitWith(PlainConfigs, {[request |-> IdlePayload, nvr |-> <<>>]})

SpecClient == InitClient /\ [][NextClient]_vars

\* the positions of the connect and of the disconnect calls in the log
ConnectCalls == {i \in DOMAIN calls : calls[i].fn = "connect"}
DisconnectCalls == {i \in DOMAIN calls : calls[i].fn = "disconnect"}

\* the last connect succeeded and no disconnect followed it
LastConnectStands ==
  \E k \in ConnectCalls :
    /\ \A i \in ConnectCalls : i <= k
    /\ calls[k].result
    /\ \A i \in DisconnectCalls : i < k

\* C30: after any sequence of connect and disconnect calls the client is
\* marked authenticated only if the last connect succeeded and no disconnect
\* followed it; a getter called while the client is not authenticated
\* returns an empty result without going upstream
C30_AuthenticatedOnlyAfterLastConnect ==
  /\ authenticated => LastConnectStands
  /\ \A i \in DOMAIN calls :
       (calls[i].fn \in Getters /\ ~calls[i].args[1]) =>
         (~calls[i].result /\ ~calls[i].args[2])
====
